---- MODULE Spec2Model ----
\* rustc-ja-wrapper (src/src/main.rs): translation of rustc diagnostics through a
\* table of templated phrases.  Text is modelled character by character: a string
\* is a sequence of one-character strings.
EXTENDS Integers, Sequences, FiniteSets, TLC

VARIABLES
    pc,         \* position of the modelled call: "call", "done"
    entries,    \* the entries of assets/translate.json, in file order
    table,      \* translate_message: the `translations` slice that was passed
    message,    \* translate_message: the `message` argument
    result,     \* translate_message: the returned String
    hit,        \* translate_message: index of the entry that returned (0: fell through)
    json,       \* translate_json_message: the `json` argument
    new_json,   \* translate_json_message: the returned value
    replaced,   \* translate_json_message: the `replaced` vector at the end
    data,       \* convert_json_error_format: the `data` argument
    out         \* convert_json_error_format: the returned bytes

vars == <<pc, entries, table, message, result, hit, json, new_json, replaced, data, out>>

-----------------------------------------------------------------------------
\* Characters

NL == "\n"
LB == "{"
DL == "$"
RB == "}"

\* The characters of the model alphabet that the regex class \w matches.
Digits == {"1"}
Letters == {"a", "b", "c", "j", "x", "y"}
WordChars == Letters \cup Digits

-----------------------------------------------------------------------------
\* String helpers (std::str)

\* s[i..] starts with pat
StartsWithAt(s, i, pat) ==
    /\ i + Len(pat) - 1 <= Len(s)
    /\ \A k \in 1..Len(pat) : s[i + k - 1] = pat[k]

\* str::contains
Contains(s, pat) == \E i \in 1..(Len(s) + 1) : StartsWithAt(s, i, pat)

RECURSIVE ReplaceFrom(_, _, _, _)
ReplaceFrom(s, i, from, to) ==
    IF i > Len(s) THEN
        IF from = <<>> THEN to ELSE <<>>
    ELSE IF from = <<>> THEN
        to \o <<s[i]>> \o ReplaceFrom(s, i + 1, from, to)
    ELSE IF StartsWithAt(s, i, from) THEN
        to \o ReplaceFrom(s, i + Len(from), from, to)
    ELSE
        <<s[i]>> \o ReplaceFrom(s, i + 1, from, to)

\* str::replace: every non-overlapping occurrence of `from`, left to right.
Replace(s, from, to) == ReplaceFrom(s, 1, from, to)

-----------------------------------------------------------------------------
\* PLACEHOLDER_RE = \{\$(\w+)\}

RECURSIVE WordRun(_, _)
WordRun(s, i) ==
    IF i <= Len(s) /\ s[i] \in WordChars THEN 1 + WordRun(s, i + 1) ELSE 0

\* Length of the name of the placeholder token that starts at s[i], 0 if none does.
PlaceholderAt(s, i) ==
    IF StartsWithAt(s, i, <<LB, DL>>)
    THEN LET n == WordRun(s, i + 2) IN
         IF n > 0 /\ i + 2 + n <= Len(s) /\ s[i + 2 + n] = RB THEN n ELSE 0
    ELSE 0

\* The text "{$name}"
PlaceholderToken(name) == <<LB, DL>> \o name \o <<RB>>

Lit(c) == [kind |-> "lit", ch |-> c, name |-> <<>>]
Group(n) == [kind |-> "group", ch |-> "", name |-> n]

\* The pattern built in re_str: the literal runs escaped character by character,
\* each placeholder turned into the named group (?P<name>.+?).
RECURSIVE PatternFrom(_, _)
PatternFrom(en_str, i) ==
    IF i > Len(en_str) THEN <<>>
    ELSE LET n == PlaceholderAt(en_str, i) IN
         IF n > 0
         THEN <<Group(SubSeq(en_str, i + 2, i + 1 + n))>> \o PatternFrom(en_str, i + n + 3)
         ELSE <<Lit(en_str[i])>> \o PatternFrom(en_str, i + 1)

Pattern(en_str) == PatternFrom(en_str, 1)

\* The names of the named groups, in group order (re.capture_names().flatten()).
GroupNames(toks) ==
    LET gs == SelectSeq(toks, LAMBDA t : t.kind = "group")
    IN  [k \in 1..Len(gs) |-> gs[k].name]

\* regex::Regex::new succeeds: a group name starts with a letter, and no name is
\* given to two groups (the regex crate rejects a duplicate capture group name).
AllowDuplicateNames(toks) ==
    LET names == GroupNames(toks)
    IN  \A k \in 1..Len(names) : names[k][1] \notin Digits

CompileOk(toks) ==
    LET names == GroupNames(toks)
    IN  /\ \A k \in 1..Len(names) : names[k][1] \notin Digits
        /\ \A k, l \in 1..Len(names) : k # l => names[k] # names[l]

-----------------------------------------------------------------------------
\* re.captures(message) for ^<pattern>(.*)$ : leftmost-first, groups lazy,
\* `.` does not match a line feed, `$` is the end of the text.

HasNewline(s) == \E i \in 1..Len(s) : s[i] = NL

NoCaps == [ok |-> FALSE, vals |-> <<>>, extra |-> <<>>]

\* The trailing group (.*)$ applied to the rest of the message.
TailGroup(rest) ==
    IF HasNewline(rest) THEN NoCaps ELSE [ok |-> TRUE, vals |-> <<>>, extra |-> rest]

RECURSIVE MatchFrom(_, _, _, _), TryLen(_, _, _, _, _)
MatchFrom(toks, k, msg, pos) ==
    IF k > Len(toks) THEN TailGroup(SubSeq(msg, pos, Len(msg)))
    ELSE IF toks[k].kind = "lit" THEN
        IF pos <= Len(msg) /\ msg[pos] = toks[k].ch
        THEN MatchFrom(toks, k + 1, msg, pos + 1)
        ELSE NoCaps
    ELSE TryLen(toks, k, msg, pos, 1)

\* (?P<name>.+?): the shortest value first.
TryLen(toks, k, msg, pos, n) ==
    IF pos + n - 1 > Len(msg) \/ msg[pos + n - 1] = NL THEN NoCaps
    ELSE LET r == MatchFrom(toks, k + 1, msg, pos + n) IN
         IF r.ok
         THEN [ok |-> TRUE, vals |-> <<SubSeq(msg, pos, pos + n - 1)>> \o r.vals,
               extra |-> r.extra]
         ELSE TryLen(toks, k, msg, pos, n + 1)

Captures(toks, msg) == MatchFrom(toks, 1, msg, 1)

-----------------------------------------------------------------------------
\* translate_message

\* The loop over re.capture_names(): one str::replace per named group, in order.
RECURSIVE SubstituteFrom(_, _, _, _)
SubstituteFrom(res, names, vals, k) ==
    IF k > Len(names) THEN res
    ELSE IF names[k] = <<>> \/ names[k] = <<"0">> \/ names[k] = <<"1">>
         THEN SubstituteFrom(res, names, vals, k + 1)
         ELSE SubstituteFrom(Replace(res, PlaceholderToken(names[k]), vals[k]),
                             names, vals, k + 1)

Substitute(ja_str, names, vals) == SubstituteFrom(ja_str, names, vals, 1)

\* The body of `if let Some(caps) = re.captures(message)`.
BuildWholeMatch(ja_str, toks, caps, msg) ==
    Substitute(ja_str, GroupNames(toks), caps.vals) \o msg

Build(ja_str, toks, caps, msg) ==
    Substitute(ja_str, GroupNames(toks), caps.vals) \o caps.extra

NoHit(msg) == [hit |-> 0, out |-> msg]

FallThroughEmpty(msg) == NoHit(<<>>)

\* The final `message.to_string()`.
FallThrough(msg) == NoHit(msg)

RECURSIVE Scan(_, _, _), OnCompileError(_, _, _), OnNoMatch(_, _, _)

OnCompileErrorReturn(msg, translations, i) == NoHit(msg)

\* `Err(_) => continue`
OnCompileError(msg, translations, i) == Scan(msg, translations, i + 1)

\* captures() returned None: the loop goes on with the next entry.
OnNoMatch(msg, translations, i) == Scan(msg, translations, i + 1)

\* `for trans in translations.iter()` from entry i on.
Scan(msg, translations, i) ==
    IF i > Len(translations) THEN FallThrough(msg)
    ELSE LET toks == Pattern(translations[i].en) IN
         IF ~CompileOk(toks) THEN OnCompileError(msg, translations, i)
         ELSE LET caps == Captures(toks, msg) IN
              IF caps.ok
              THEN [hit |-> i, out |-> Build(translations[i].ja, toks, caps, msg)]
              ELSE OnNoMatch(msg, translations, i)

translate_message(msg, translations) == Scan(msg, translations, 1).out

\* Index of the entry translate_message returns from, 0 if it falls through.
MatchedEntry(msg, translations) == Scan(msg, translations, 1).hit

-----------------------------------------------------------------------------
\* TRANSLATE_LIST: the entries sorted by descending en.len() (a stable sort)

RECURSIVE InsertByLen(_, _, _)
InsertByLen(e, sorted, k) ==
    IF k > Len(sorted) THEN Append(sorted, e)
    ELSE IF Len(sorted[k].en) < Len(e.en)
         THEN SubSeq(sorted, 1, k - 1) \o <<e>> \o SubSeq(sorted, k, Len(sorted))
         ELSE InsertByLen(e, sorted, k + 1)

RECURSIVE SortFrom(_, _, _)
SortFrom(list, k, sorted) ==
    IF k > Len(list) THEN sorted
    ELSE SortFrom(list, k + 1, InsertByLen(list[k], sorted, 1))

\* The same sort with the comparison the other way round: shortest first.
RECURSIVE InsertByLenAscending(_, _, _)
InsertByLenAscending(e, sorted, k) ==
    IF k > Len(sorted) THEN Append(sorted, e)
    ELSE IF Len(sorted[k].en) > Len(e.en)
         THEN SubSeq(sorted, 1, k - 1) \o <<e>> \o SubSeq(sorted, k, Len(sorted))
         ELSE InsertByLenAscending(e, sorted, k + 1)

RECURSIVE SortAscendingFrom(_, _, _)
SortAscendingFrom(list, k, sorted) ==
    IF k > Len(list) THEN sorted
    ELSE SortAscendingFrom(list, k + 1, InsertByLenAscending(list[k], sorted, 1))

SortAscending(list) == SortAscendingFrom(list, 1, <<>>)

TRANSLATE_LIST(list) == SortFrom(list, 1, <<>>)

-----------------------------------------------------------------------------
\* serde_json::Value: a tag and a payload

NullV == [t |-> "null", v |-> <<>>]
Num(n) == [t |-> "num", v |-> <<n>>]
Str(s) == [t |-> "str", v |-> s]
Arr(a) == [t |-> "arr", v |-> a]
Obj(f) == [t |-> "obj", v |-> f]

\* Option::None of Value::get
None == [t |-> "none", v |-> <<>>]

\* An index assignment on a value that is neither an object nor null panics.
Panic == [t |-> "panic", v |-> <<>>]

\* Value::get(key) with a string key
Get(val, key) ==
    IF val.t = "obj" /\ key \in DOMAIN val.v THEN val.v[key] ELSE None

\* value[key] = x
SetKey(val, key, x) ==
    IF val.t = "obj"
    THEN Obj([k \in DOMAIN val.v \cup {key} |-> IF k = key THEN x ELSE val.v[k]])
    ELSE IF val.t = "null" THEN Obj([k \in {key} |-> x])
    ELSE Panic

\* The keys of the model in the order of serde_json's map (byte order).
KeyOrder == <<"$message_type", "children", "code", "label", "line", "message", "rendered", "spans">>

\* serde_json::to_string: an object as its members in map order, an array as its
\* elements in order, every other value as its own text.
RECURSIVE ToText(_)
ToText(val) ==
    IF val.t = "obj" THEN
        LET keys == SelectSeq(KeyOrder, LAMBDA k : k \in DOMAIN val.v)
        IN  [t |-> "members", v |-> [i \in 1..Len(keys) |-> <<keys[i], ToText(val.v[keys[i]])>>]]
    ELSE IF val.t = "arr" THEN
        [t |-> "elements", v |-> [i \in 1..Len(val.v) |-> ToText(val.v[i])]]
    ELSE val

\* serde_json::from_str: the value a text denotes; the last member of a key stands.
RECURSIVE FromText(_)
FromText(text) ==
    IF text.t = "members" THEN
        LET last(k) == CHOOSE i \in 1..Len(text.v) :
                           /\ text.v[i][1] = k
                           /\ \A l \in 1..Len(text.v) : text.v[l][1] = k => l <= i
        IN  Obj([k \in {text.v[i][1] : i \in 1..Len(text.v)} |-> FromText(text.v[last(k)][2])])
    ELSE IF text.t = "elements" THEN
        Arr([i \in 1..Len(text.v) |-> FromText(text.v[i])])
    ELSE text

-----------------------------------------------------------------------------
\* translate_json_message

Pair(o, tr) == [orig |-> o, trans |-> tr]

\* `let x = e; ...`: e is computed once and the rest works on its value.
With(e, Rest(_)) == CHOOSE r \in {Rest(x) : x \in {e}} : TRUE

\* `if let Some(x) = v.get(key).and_then(|m| m.as_str())`: the field is translated,
\* and replaced and logged when the translation differs.
TranslateField(val, key, translations) ==
    LET m == Get(val, key) IN
    IF m.t = "str"
    THEN With(translate_message(m.v, translations), LAMBDA translated :
             IF translated # m.v
             THEN [val |-> SetKey(val, key, Str(translated)),
                   log |-> <<Pair(m.v, translated)>>]
             ELSE [val |-> val, log |-> <<>>])
    ELSE [val |-> val, log |-> <<>>]

\* `for (i, span) in spans.iter().enumerate()`: the label of every span.
RECURSIVE TranslateSpans(_, _, _)
TranslateSpans(spans, translations, i) ==
    IF i > Len(spans) THEN [val |-> <<>>, log |-> <<>>]
    ELSE With(TranslateField(spans[i], "label", translations), LAMBDA one :
         With(TranslateSpans(spans, translations, i + 1), LAMBDA rest :
             [val |-> <<one.val>> \o rest.val, log |-> one.log \o rest.log]))

\* `if let Some(spans) = v.get("spans").and_then(|s| s.as_array())`
TranslateSpansField(orig, cur, translations) ==
    LET spans == Get(orig, "spans") IN
    IF spans.t = "arr"
    THEN With(TranslateSpans(spans.v, translations, 1), LAMBDA r :
             [val |-> SetKey(cur, "spans", Arr(r.val)), log |-> r.log])
    ELSE [val |-> cur, log |-> <<>>]

RECURSIVE TranslateChildDeep(_, _), TranslateChildrenDeep(_, _, _)

\* A variant that descends into the children of a child as well.
TranslateChildDeep(child, translations) ==
    LET nested == Get(child, "children") IN
    With(TranslateField(child, "message", translations), LAMBDA m :
    With(TranslateSpansField(child, m.val, translations), LAMBDA s :
        IF nested.t = "arr"
        THEN With(TranslateChildrenDeep(nested.v, translations, 1), LAMBDA r :
                 [val |-> SetKey(s.val, "children", Arr(r.val)),
                  log |-> m.log \o s.log \o r.log])
        ELSE [val |-> s.val, log |-> m.log \o s.log]))

TranslateChildrenDeep(children, translations, i) ==
    IF i > Len(children) THEN [val |-> <<>>, log |-> <<>>]
    ELSE With(TranslateChildDeep(children[i], translations), LAMBDA one :
         With(TranslateChildrenDeep(children, translations, i + 1), LAMBDA rest :
             [val |-> <<one.val>> \o rest.val, log |-> one.log \o rest.log]))

\* One pass of the loop over children: the child's message, then its spans.
TranslateChild(child, translations) ==
    With(TranslateField(child, "message", translations), LAMBDA m :
    With(TranslateSpansField(child, m.val, translations), LAMBDA s :
        [val |-> s.val, log |-> m.log \o s.log]))

RECURSIVE TranslateChildren(_, _, _)
TranslateChildren(children, translations, i) ==
    IF i > Len(children) THEN [val |-> <<>>, log |-> <<>>]
    ELSE With(TranslateChild(children[i], translations), LAMBDA one :
         With(TranslateChildren(children, translations, i + 1), LAMBDA rest :
             [val |-> <<one.val>> \o rest.val, log |-> one.log \o rest.log]))

\* `if let Some(children) = json.get("children").and_then(|c| c.as_array())`
TranslateChildrenField(orig, cur, translations) ==
    LET children == Get(orig, "children") IN
    IF children.t = "arr"
    THEN With(TranslateChildren(children.v, translations, 1), LAMBDA r :
             [val |-> SetKey(cur, "children", Arr(r.val)), log |-> r.log])
    ELSE [val |-> cur, log |-> <<>>]

\* One turn of `for (orig, trans) in &replaced`.
ApplyPairFirstOnly(text, p) ==
    IF p.orig # <<>> /\ p.orig # p.trans /\ Contains(text, p.orig)
    THEN LET i == CHOOSE k \in 1..Len(text) :
                      /\ StartsWithAt(text, k, p.orig)
                      /\ \A l \in 1..(k - 1) : ~StartsWithAt(text, l, p.orig)
         IN  SubSeq(text, 1, i - 1) \o p.trans \o SubSeq(text, i + Len(p.orig), Len(text))
    ELSE text

ApplyPair(text, p) ==
    IF p.orig # <<>> /\ p.orig # p.trans THEN Replace(text, p.orig, p.trans) ELSE text

RECURSIVE Reconcile(_, _, _)
Reconcile(text, log, i) ==
    IF i > Len(log) THEN text ELSE Reconcile(ApplyPair(text, log[i]), log, i + 1)

\* `if let Some(rendered) = new_json.get("rendered").and_then(|r| r.as_str())`
ReconcileRendered(cur, log) ==
    LET rendered == Get(cur, "rendered") IN
    IF rendered.t = "str"
    THEN SetKey(cur, "rendered", Str(Reconcile(rendered.v, log, 1)))
    ELSE cur

\* The closing to_string / from_str of the new value.
RoundTrip(val) == FromText(ToText(val))

\* The whole function: the new value and the `replaced` vector.
translate_json_message(val, translations) ==
    With(TranslateField(val, "message", translations), LAMBDA m :
    With(TranslateSpansField(val, m.val, translations), LAMBDA s :
    With(TranslateChildrenField(val, s.val, translations), LAMBDA c :
    With(m.log \o s.log \o c.log, LAMBDA log :
        [json |-> RoundTrip(ReconcileRendered(c.val, log)), replaced |-> log]))))

-----------------------------------------------------------------------------
\* Inputs of the translate_message runs

MaxTable == 2       \* entries in a table
MaxSrcPieces == 2   \* pieces (a character or a placeholder) in a source template
MaxMsgLen == 2      \* characters in a message

RECURSIVE Concats(_, _)
\* All concatenations of at most n pieces.
Concats(pieces, n) ==
    IF n = 0 THEN {<<>>}
    ELSE LET shorter == Concats(pieces, n - 1)
         IN  shorter \cup {s \o p : s \in shorter, p \in pieces}

SrcPieces == {<<"x">>, PlaceholderToken(<<"a">>)}
MsgPieces == {<<"x">>, <<"y">>, <<NL>>}

\* The target of a source: its literal x rendered as c, its placeholders kept,
\* and a closing j.
TargetFor(en) == Replace(en, <<"x">>, <<"c">>) \o <<"j">>

\* translate.json holds no entry with an empty source.
Sources == Concats(SrcPieces, MaxSrcPieces) \ {<<>>}
EntryPool == {[en |-> s, ja |-> TargetFor(s)] : s \in Sources}
Tables == UNION {[1..n -> EntryPool] : n \in 0..MaxTable}
Messages == Concats(MsgPieces, MaxMsgLen)

Init ==
    /\ pc = "call"
    /\ entries \in Tables
    /\ message \in Messages
    /\ table = <<>>
    /\ result = <<>>
    /\ hit = 0
    /\ json = NullV
    /\ new_json = NullV
    /\ replaced = <<>>
    /\ data = <<>>
    /\ out = <<>>

\* translate_message(message, table) with a table the caller built (the tests).
CallWithTable ==
    /\ pc = "call"
    /\ pc' = "done"
    /\ table' = entries
    /\ result' = translate_message(message, entries)
    /\ hit' = MatchedEntry(message, entries)
    /\ UNCHANGED <<entries, message, json, new_json, replaced, data, out>>

\* translate_message(message, &TRANSLATE_LIST), the table the program uses.
CallWithTranslateList ==
    /\ pc = "call"
    /\ pc' = "done"
    /\ table' = TRANSLATE_LIST(entries)
    /\ result' = translate_message(message, TRANSLATE_LIST(entries))
    /\ hit' = MatchedEntry(message, TRANSLATE_LIST(entries))
    /\ UNCHANGED <<entries, message, json, new_json, replaced, data, out>>

Next == CallWithTable \/ CallWithTranslateList

Spec == Init /\ [][Next]_vars

\* Runs with one entry of two placeholder names and messages that may hold the
\* text of a placeholder token.
MaxSubPieces == 3   \* pieces in a source template or a message
MaxTgtPieces == 2   \* pieces in a target template

SubSrcPieces ==
    {<<"x">>, PlaceholderToken(<<"a">>), PlaceholderToken(<<"b">>), PlaceholderToken(<<"1">>)}
SubTgtPieces == {<<"j">>, PlaceholderToken(<<"a">>), PlaceholderToken(<<"b">>)}
SubMsgPieces == {<<"x">>, <<"y">>, PlaceholderToken(<<"b">>)}

SubEntryPool ==
    {[en |-> s, ja |-> t] : s \in Concats(SubSrcPieces, MaxSubPieces) \ {<<>>},
                            t \in Concats(SubTgtPieces, MaxTgtPieces)}

InitSubstitution ==
    /\ pc = "call"
    /\ entries \in {<<e>> : e \in SubEntryPool}
    /\ message \in Concats(SubMsgPieces, MaxSubPieces)
    /\ table = <<>>
    /\ result = <<>>
    /\ hit = 0
    /\ json = NullV
    /\ new_json = NullV
    /\ replaced = <<>>
    /\ data = <<>>
    /\ out = <<>>

SpecSubstitution == InitSubstitution /\ [][Next]_vars

-----------------------------------------------------------------------------
\* Inputs of the translate_json_message runs

MaxSpans == 1       \* elements of a top-level spans array
MaxChildren == 1    \* elements of a children array
MaxRendered == 2    \* characters in a rendered text

\* An object of the fields of f that are present (f[k] # None).
ObjOf(f) == Obj([k \in {k \in DOMAIN f : f[k] # None} |-> f[k]])

Span(label) == ObjOf([label |-> label, line |-> Num(1)])

FieldVals == {None, NullV, Str(<<"a">>), Str(<<"b">>)}
SpanPool == {Span(l) : l \in FieldVals} \cup {Num(1)}

ArraysOf(pool, n) == {Arr(a) : a \in UNION {[1..k -> pool] : k \in 0..n}}

ChildPool ==
    {ObjOf([message |-> m, spans |-> sp, children |-> c]) :
        m \in {None, NullV, Str(<<"a">>)},
        sp \in {None, Arr(<<Span(Str(<<"a">>))>>), Arr(<<Span(NullV)>>)},
        c \in {None, Arr(<<ObjOf([message |-> Str(<<"a">>)])>>)}}
    \cup {NullV}

Records ==
    {ObjOf([message |-> m, spans |-> sp, children |-> c, rendered |-> r, code |-> Num(1)]) :
        m \in FieldVals,
        sp \in {None, NullV} \cup ArraysOf(SpanPool, MaxSpans),
        c \in {None} \cup ArraysOf(ChildPool, MaxChildren),
        r \in {None, NullV, Str(<<"a", "b">>)}}
    \cup {NullV, Arr(<<Str(<<"a">>)>>)}

EntryAB == [en |-> <<"a">>, ja |-> <<"b">>]
EntryBC == [en |-> <<"b">>, ja |-> <<"c">>]
EntryABA == [en |-> <<"a", "b">>, ja |-> <<"a">>]

InitJson ==
    /\ pc = "call"
    /\ entries = <<>>
    /\ message = <<>>
    /\ table \in {<<>>, <<EntryAB, EntryBC>>}
    /\ result = <<>>
    /\ hit = 0
    /\ json \in Records
    /\ new_json = NullV
    /\ replaced = <<>>
    /\ data = <<>>
    /\ out = <<>>

\* translate_json_message(&json, table)
CallTranslateJson ==
    /\ pc = "call"
    /\ pc' = "done"
    /\ \E r \in {translate_json_message(json, table)} :
           /\ new_json' = r.json
           /\ replaced' = r.replaced
    /\ UNCHANGED <<entries, table, message, result, hit, json, data, out>>

NextJson == CallTranslateJson

SpecJson == InitJson /\ [][NextJson]_vars

\* Runs about the rendered text: every text field a string, the table and the
\* rendered text varied.
RenderedTables ==
    {t \in UNION {[1..n -> {EntryAB, EntryBC, EntryABA}] : n \in 0..MaxTable} :
        \A i, k \in 1..Len(t) : i # k => t[i] # t[k]}

RenderedRecords ==
    {ObjOf([message |-> m, spans |-> sp, children |-> c, rendered |-> Str(r)]) :
        m \in {NullV, Str(<<"a">>), Str(<<"b">>), Str(<<"a", "b">>)},
        sp \in ArraysOf({Span(Str(<<"a">>)), Span(Str(<<"b">>))}, MaxSpans),
        c \in {None,
               Arr(<<ObjOf([message |-> Str(<<"a">>)])>>),
               Arr(<<ObjOf([message |-> Str(<<"b">>),
                            spans |-> Arr(<<Span(Str(<<"a">>))>>)])>>)},
        r \in Concats({<<"a">>, <<"b">>, <<"c">>}, MaxRendered)}

InitRendered ==
    /\ pc = "call"
    /\ entries = <<>>
    /\ message = <<>>
    /\ table \in RenderedTables
    /\ result = <<>>
    /\ hit = 0
    /\ json \in RenderedRecords
    /\ new_json = NullV
    /\ replaced = <<>>
    /\ data = <<>>
    /\ out = <<>>

SpecRendered == InitRendered /\ [][NextJson]_vars

-----------------------------------------------------------------------------
\* convert_json_error_format.  The bytes of stderr are modelled as chunks: a single
\* byte (a blank, a carriage return, a line feed, a byte x that begins no JSON text,
\* a byte FF that no UTF-8 text holds) or the whole compact text of one JSON value.

Byte(b) == [b |-> b, doc |-> None]
Doc(val) == [b |-> "doc", doc |-> ToText(val)]

SP == Byte(" ")
CR == Byte("\r")
LF == Byte("\n")
BX == Byte("x")
FF == Byte("FF")

\* std::str::from_utf8(&data) is Ok
IsUtf8(bytes) == \A i \in 1..Len(bytes) : bytes[i] # FF

\* The line without the "\r" of a "\r\n" ending.
StripCR(line) ==
    IF Len(line) > 0 /\ line[Len(line)] = CR THEN SubSeq(line, 1, Len(line) - 1) ELSE line

\* The text cut at every line feed; text after the last line feed is a line if it
\* is not empty.
RECURSIVE SplitLines(_, _, _)
SplitLines(bytes, i, cur) ==
    IF i > Len(bytes) THEN (IF cur = <<>> THEN <<>> ELSE <<cur>>)
    ELSE IF bytes[i] = LF
         THEN <<Append(cur, LF)>> \o SplitLines(bytes, i + 1, <<>>)
         ELSE SplitLines(bytes, i + 1, Append(cur, bytes[i]))

\* One item of str::lines(): the line ending ("\n" or "\r\n") is taken off.
LineOf(raw) ==
    IF Len(raw) > 0 /\ raw[Len(raw)] = LF
    THEN StripCR(SubSeq(raw, 1, Len(raw) - 1))
    ELSE raw

\* s.lines()
Lines(bytes) ==
    LET raw == SplitLines(bytes, 1, <<>>) IN [i \in 1..Len(raw) |-> LineOf(raw[i])]

\* serde_json::from_str::<Value>(line): one JSON text, white space around it allowed.
ParseLine(line) ==
    LET body == SelectSeq(line, LAMBDA c : c # SP /\ c # CR) IN
    IF Len(body) = 1 /\ body[1].b = "doc"
    THEN [ok |-> TRUE, val |-> FromText(body[1].doc)]
    ELSE [ok |-> FALSE, val |-> None]

Diagnostic == <<"d", "i", "a", "g", "n", "o", "s", "t", "i", "c">>

\* convert_json_error_line with the table that TRANSLATE_LIST holds
convert_json_error_line(val, list) ==
    IF val.t = "obj" /\ Get(val, "$message_type") = Str(Diagnostic)
    THEN translate_json_message(val, TRANSLATE_LIST(list)).json
    ELSE val

RECURSIVE ConvertLines(_, _, _), OnParseError(_, _, _)

OnParseErrorDropLine(lines, list, i) == ConvertLines(lines, list, i + 1)

\* `Err(_) => return data`
OnParseError(lines, list, i) == [ok |-> FALSE, lines |-> <<>>]

\* `for line in s.lines()` from line i on: the converted lines, or the early return.
ConvertLines(lines, list, i) ==
    IF i > Len(lines) THEN [ok |-> TRUE, lines |-> <<>>]
    ELSE With(ParseLine(lines[i]), LAMBDA parsed :
             IF parsed.ok
             THEN With(ConvertLines(lines, list, i + 1), LAMBDA rest :
                      IF rest.ok
                      THEN [ok |-> TRUE,
                            lines |-> <<<<Doc(convert_json_error_line(parsed.val, list))>>>>
                                      \o rest.lines]
                      ELSE rest)
             ELSE OnParseError(lines, list, i))

\* out_lines.join("\n")
RECURSIVE Join(_, _)
Join(lines, i) ==
    IF i > Len(lines) THEN <<>>
    ELSE IF i = Len(lines) THEN lines[i]
    ELSE lines[i] \o <<LF>> \o Join(lines, i + 1)

convert_json_error_format(bytes, list) ==
    IF ~IsUtf8(bytes) THEN bytes
    ELSE With(ConvertLines(Lines(bytes), list, 1), LAMBDA r :
             IF r.ok THEN Join(r.lines, 1) ELSE bytes)

\* Inputs of the convert_json_error_format runs
MaxData == 4        \* chunks in the bytes of stderr

DiagnosticDoc ==
    Doc(ObjOf([message |-> Str(<<"a">>), rendered |-> Str(<<"a", "b">>)]
              @@ ("$message_type" :> Str(Diagnostic))))
OtherDoc ==
    Doc(ObjOf([message |-> Str(<<"a">>)] @@ ("$message_type" :> Str(<<"c">>))))

Chunks == {DiagnosticDoc, OtherDoc, SP, CR, LF, BX, FF}

InitConvert ==
    /\ pc = "call"
    /\ entries = <<EntryAB, EntryBC, EntryABA>>
    /\ message = <<>>
    /\ table = <<>>
    /\ result = <<>>
    /\ hit = 0
    /\ json = NullV
    /\ new_json = NullV
    /\ replaced = <<>>
    /\ data \in UNION {[1..n -> Chunks] : n \in 0..MaxData}
    /\ out = <<>>

\* stderr_buf = convert_json_error_format(stderr_buf)
CallConvert ==
    /\ pc = "call"
    /\ pc' = "done"
    /\ out' = convert_json_error_format(data, entries)
    /\ UNCHANGED <<entries, table, message, result, hit, json, new_json, replaced, data>>

NextConvert == CallConvert

SpecConvert == InitConvert /\ [][NextConvert]_vars

-----------------------------------------------------------------------------
\* What the claims speak of, stated without the matcher of the model

\* The positions of msg at which a match of toks[1..k] can end (one past its last
\* character), each group standing for one or more characters other than a line feed.
RECURSIVE EndsAfter(_, _, _)
EndsAfter(toks, k, msg) ==
    IF k = 0 THEN {1}
    ELSE LET before == EndsAfter(toks, k - 1, msg) IN
         IF toks[k].kind = "lit"
         THEN {p + 1 : p \in {q \in before : q <= Len(msg) /\ msg[q] = toks[k].ch}}
         ELSE {q \in 2..(Len(msg) + 1) :
                  \E p \in before : p < q /\ \A r \in p..(q - 1) : msg[r] # NL}

\* ^<pattern>(.*)$ has a match in msg.
RegexMatches(toks, msg) ==
    \E p \in EndsAfter(toks, Len(toks), msg) : \A r \in p..Len(msg) : msg[r] # NL

\* The entry's matcher compiles and matches msg.
Matches(e, msg) == CompileOk(Pattern(e.en)) /\ RegexMatches(Pattern(e.en), msg)

HasPlaceholder(s) == \E i \in 1..Len(s) : PlaceholderAt(s, i) > 0

HasDuplicateName(s) ==
    LET names == GroupNames(Pattern(s))
    IN  \E k, l \in 1..Len(names) : k # l /\ names[k] = names[l]

IsProperPrefix(s, t) == Len(s) < Len(t) /\ SubSeq(t, 1, Len(s)) = s

\* What translate_message builds from entry e for msg.
BuiltFrom(e, msg) ==
    Build(e.ja, Pattern(e.en), Captures(Pattern(e.en), msg), msg)

RemoveAt(list, i) == SubSeq(list, 1, i - 1) \o SubSeq(list, i + 1, Len(list))

\* The values that fill the groups of toks[k..] so that they spell text[pos..].
RECURSIVE Fillings(_, _, _, _)
Fillings(toks, k, text, pos) ==
    IF k > Len(toks) THEN (IF pos = Len(text) + 1 THEN {<<>>} ELSE {})
    ELSE IF toks[k].kind = "lit" THEN
        IF pos <= Len(text) /\ text[pos] = toks[k].ch
        THEN Fillings(toks, k + 1, text, pos + 1)
        ELSE {}
    ELSE UNION {{<<SubSeq(text, pos, q - 1)>> \o f : f \in Fillings(toks, k + 1, text, q)} :
                   q \in (pos + 1)..(Len(text) + 1)}

\* The target with every token of a captured name replaced by the value of that
\* name (of the name's last group), in one pass from left to right.
RECURSIVE SimultaneousFrom(_, _, _, _)
SimultaneousFrom(ja_str, names, vals, i) ==
    IF i > Len(ja_str) THEN <<>>
    ELSE LET n == PlaceholderAt(ja_str, i)
             name == SubSeq(ja_str, i + 2, i + 1 + n)
             ks == {k \in 1..Len(names) : names[k] = name}
         IN  IF n > 0 /\ ks # {}
             THEN vals[CHOOSE k \in ks : \A l \in ks : l <= k]
                      \o SimultaneousFrom(ja_str, names, vals, i + n + 3)
             ELSE <<ja_str[i]>> \o SimultaneousFrom(ja_str, names, vals, i + 1)

Simultaneous(ja_str, names, vals) == SimultaneousFrom(ja_str, names, vals, 1)

-----------------------------------------------------------------------------
\* Claims about translate_message

\* C2 as stated: whenever two entries of the table, one a proper prefix of the
\* other, both match the message, the result is built from the longer entry's
\* target, wherever the two stand in the table.
C2_LongestAnywhere ==
    pc = "done" =>
        \A i, j \in 1..Len(table) :
            (/\ IsProperPrefix(table[i].en, table[j].en)
             /\ Matches(table[i], message)
             /\ Matches(table[j], message))
            => result = BuiltFrom(table[j], message)

\* C2 amended: translate_message takes the entries in table order. When the longer
\* entry stands before the shorter one, the shorter one is never selected and the
\* result is built from the longer one if no entry before it matches; in the table
\* TRANSLATE_LIST (sorted by descending length) the shorter of two such entries is
\* never selected, and a table of just the two gives the longer one's target.
C2_LongestWhenFirst ==
    pc = "done" =>
        \A i, j \in 1..Len(table) :
            (/\ IsProperPrefix(table[i].en, table[j].en)
             /\ Matches(table[i], message)
             /\ Matches(table[j], message))
            => /\ j < i =>
                    /\ hit # i
                    /\ (\A k \in 1..(j - 1) : ~Matches(table[k], message))
                           => result = BuiltFrom(table[j], message)
               /\ table = TRANSLATE_LIST(entries) =>
                    /\ hit # i
                    /\ Len(table) = 2 => result = BuiltFrom(table[j], message)

C2_Witness ==
    /\ pc = "done"
    /\ table = TRANSLATE_LIST(entries)
    /\ table # entries
    /\ Len(table) = 2
    /\ IsProperPrefix(table[2].en, table[1].en)
    /\ Matches(table[1], message)
    /\ Matches(table[2], message)
    /\ hit = 1
    /\ result # BuiltFrom(table[2], message)

\* C3 as stated: a message equal to the source of an entry without placeholders is
\* translated to exactly that entry's target, whatever else the table holds.
C3_ExactPhraseAlways ==
    pc = "done" =>
        \A k \in 1..Len(table) :
            (~HasPlaceholder(table[k].en) /\ message = table[k].en)
            => result = table[k].ja

\* C3 amended: the same, provided no entry before it in the table matches the text.
C3_ExactPhraseWhenFirst ==
    pc = "done" =>
        \A k \in 1..Len(table) :
            (/\ ~HasPlaceholder(table[k].en)
             /\ message = table[k].en
             /\ \A i \in 1..(k - 1) : ~Matches(table[i], message))
            => result = table[k].ja

C3_Witness ==
    /\ pc = "done"
    /\ Len(table) = 2
    /\ HasPlaceholder(table[1].en)
    /\ ~Matches(table[1], message)
    /\ ~HasPlaceholder(table[2].en)
    /\ message = table[2].en
    /\ message # <<>>
    /\ result = table[2].ja

\* C4 as stated: for an entry with no matching entry before it and a message P \o R
\* where P spells the source with non-empty values for its placeholders and R is any
\* text, the result is the target with those values substituted, followed by R.
C4_PrefixAnyRemainder ==
    pc = "done" =>
        \A k \in 1..Len(table) : \A n \in 0..Len(message) :
            LET toks == Pattern(table[k].en)
                P == SubSeq(message, 1, n)
                R == SubSeq(message, n + 1, Len(message))
            IN  (/\ CompileOk(toks)
                 /\ \A i \in 1..(k - 1) : ~Matches(table[i], message))
                => \A f \in Fillings(toks, 1, P, 1) :
                       result = Substitute(table[k].ja, GroupNames(toks), f) \o R

\* C5 as stated: when an entry matches, the result is the target with every token
\* {$name} of a captured name replaced by the captured value, tokens of other names
\* and the text of the captured values left as they are, followed by the remainder.
C5_SubstitutionOnce ==
    (pc = "done" /\ hit # 0) =>
        LET toks == Pattern(table[hit].en)
            caps == Captures(toks, message)
        IN  result = Simultaneous(table[hit].ja, GroupNames(toks), caps.vals) \o caps.extra

\* C6: a message that no entry's compiled matcher matches is returned unchanged.
C6_PassThrough ==
    pc = "done" =>
        ((\A i \in 1..Len(table) : ~Matches(table[i], message)) => result = message)

C6_Witness ==
    /\ pc = "done"
    /\ Len(table) = 2
    /\ table[1].en # table[2].en
    /\ \A i \in 1..Len(table) : CompileOk(Pattern(table[i].en)) /\ ~Matches(table[i], message)
    /\ message # <<>>
    /\ ~HasNewline(message)
    /\ result = message

C10_CompileFailureSkipsEntry ==
    pc = "done" =>
        \A k \in 1..Len(table) :
            ~CompileOk(Pattern(table[k].en))
            => result = translate_message(message, RemoveAt(table, k))

C10_Witness ==
    /\ pc = "done"
    /\ Len(table) = 2
    /\ ~CompileOk(Pattern(table[1].en))
    /\ hit = 2
    /\ result # message

-----------------------------------------------------------------------------
\* Claims about translate_json_message

\* The starts of the occurrences of pat that a scan from the left finds in text,
\* each search resuming after the end of the occurrence before.
RECURSIVE ScanOccurrences(_, _, _)
ScanOccurrences(text, pat, i) ==
    IF i + Len(pat) - 1 > Len(text) THEN <<>>
    ELSE IF StartsWithAt(text, i, pat)
         THEN <<i>> \o ScanOccurrences(text, pat, i + Len(pat))
         ELSE ScanOccurrences(text, pat, i + 1)

\* The top-level message was translated from a non-empty A and rendered is a text.
MessageTranslated ==
    /\ pc = "done"
    /\ Get(json, "message").t = "str"
    /\ Get(json, "message").v # <<>>
    /\ Get(new_json, "message").t = "str"
    /\ Get(new_json, "message") # Get(json, "message")
    /\ Get(json, "rendered").t = "str"
    /\ Get(new_json, "rendered").t = "str"

BlankStr(val, key) ==
    IF Get(val, key).t = "str" THEN SetKey(val, key, Str(<<>>)) ELSE val

BlankSpans(val) ==
    LET spans == Get(val, "spans") IN
    IF spans.t = "arr"
    THEN SetKey(val, "spans", Arr([i \in 1..Len(spans.v) |-> BlankStr(spans.v[i], "label")]))
    ELSE val

BlankChildren(val) ==
    LET children == Get(val, "children") IN
    IF children.t = "arr"
    THEN SetKey(val, "children",
                Arr([i \in 1..Len(children.v) |->
                        BlankSpans(BlankStr(children.v[i], "message"))]))
    ELSE val

Blank(val) == BlankStr(BlankChildren(BlankSpans(BlankStr(val, "message"))), "rendered")

\* The texts of the covered string fields other than rendered.
SpanLabels(val) ==
    LET spans == Get(val, "spans") IN
    IF spans.t = "arr"
    THEN {Get(spans.v[i], "label").v : i \in {k \in 1..Len(spans.v) : Get(spans.v[k], "label").t = "str"}}
    ELSE {}

MessageText(val) == IF Get(val, "message").t = "str" THEN {Get(val, "message").v} ELSE {}

CoveredTexts(val) ==
    LET children == Get(val, "children") IN
    MessageText(val) \cup SpanLabels(val) \cup
    (IF children.t = "arr"
     THEN UNION {MessageText(children.v[i]) \cup SpanLabels(children.v[i]) :
                    i \in 1..Len(children.v)}
     ELSE {})

-----------------------------------------------------------------------------
\* Claims about convert_json_error_format

\* The lines of a byte string with their line endings: its cuts after every line feed.
RECURSIVE RawLines(_, _, _)
RawLines(bytes, i, cur) ==
    IF i > Len(bytes) THEN (IF cur = <<>> THEN <<>> ELSE <<cur>>)
    ELSE IF bytes[i].b = "\n"
         THEN <<cur \o <<bytes[i]>>>> \o RawLines(bytes, i + 1, <<>>)
         ELSE RawLines(bytes, i + 1, cur \o <<bytes[i]>>)

\* The line holds exactly one JSON text, between blanks and carriage returns.
IsJsonLine(raw) ==
    /\ Cardinality({i \in 1..Len(raw) : raw[i].b = "doc"}) = 1
    /\ \A i \in 1..Len(raw) : raw[i].b \in {"doc", " ", "\r", "\n"}

\* C8: every line of the input that is no JSON text stands in the output, byte
\* for byte the same, as the line of the same number.
C8_BadLinesUntouched ==
    pc = "done" =>
        LET inl == RawLines(data, 1, <<>>)
            outl == RawLines(out, 1, <<>>)
        IN  \A i \in 1..Len(inl) :
                ~IsJsonLine(inl[i]) => (i <= Len(outl) /\ outl[i] = inl[i])

C8_Witness ==
    /\ pc = "done"
    /\ LET inl == RawLines(data, 1, <<>>)
       IN  /\ Len(inl) = 2
           /\ inl[1] = <<DiagnosticDoc, LF>>
           /\ ~IsJsonLine(inl[2])
           /\ IsUtf8(data)
    /\ out = data

====
